---- MODULE Spec2Model ----
(***************************************************************************)
(* A model of the dash-checkbox and dash-listbox / dash-option custom      *)
(* elements (elements/dash-checkbox/src/dash-checkbox.js and               *)
(* elements/dash-listbox/src/dash-listbox.js).                             *)
(*                                                                         *)
(* An element is a record: its attributes, the properties set on the       *)
(* instance itself ("own" properties, which shadow the accessors of the    *)
(* class), whether the class has been installed on it (upgraded), whether  *)
(* it is in the document, whether its listeners are attached.  The DOM     *)
(* operations the classes call (setAttribute, removeAttribute, property    *)
(* reads and writes, blur) are operators on such records, and each method  *)
(* of a class is an operator that composes them in the order of its code.  *)
(***************************************************************************)
EXTENDS Integers, Sequences, FiniteSets

VARIABLES
    cb,                 \* the <dash-checkbox> element
    cbDefined,          \* customElements.define('dash-checkbox', ...) has run
    lb,                 \* the <dash-listbox> element (listbox 1)
    opts,               \* the <dash-option> elements, in document order
    dashOptionCounter,  \* the counter of generated option ids
    lbDefined,          \* dash-listbox.js has run (both classes are defined)
    last                \* what the last operation did: its name and inputs,
                        \* the events it dispatched, preventDefault(), an
                        \* uncaught exception, the value it returned

cbVars == <<cb, cbDefined>>
lbVars == <<lb, opts, dashOptionCounter, lbDefined>>
vars == <<cb, cbDefined, lb, opts, dashOptionCounter, lbDefined, last>>

----------------------------------------------------------------------------
(* JavaScript values, as far as the elements handle them.                  *)

JSUndefined == [type |-> "undefined", bool |-> FALSE, str |-> "", num |-> 0]
JSNull == [type |-> "null", bool |-> FALSE, str |-> "", num |-> 0]
JSBool(b) == [type |-> "boolean", bool |-> b, str |-> "", num |-> 0]
JSStr(s) == [type |-> "string", bool |-> FALSE, str |-> s, num |-> 0]
JSNum(n) == [type |-> "number", bool |-> FALSE, str |-> "", num |-> n]

\* Not a value: the instance has no own property of that name.
NoOwn == [type |-> "<no own property>", bool |-> FALSE, str |-> "", num |-> 0]

\* Not an attribute value: the element has no such attribute
\* (hasAttribute() is false, getAttribute() is null).
Absent == "<absent>"

\* Boolean(value), and the ! operator's reading of its operand.
JSToBoolean(v) ==
    CASE v.type = "boolean" -> v.bool
      [] v.type = "string" -> v.str # ""
      [] v.type = "number" -> v.num # 0
      [] OTHER -> FALSE

\* The string setAttribute() stores for a value.
DigitStr == <<"0", "1", "2", "3", "4", "5", "6", "7", "8", "9">>
JSToString(v) ==
    CASE v.type = "string" -> v.str
      [] v.type = "boolean" -> (IF v.bool THEN "true" ELSE "false")
      [] v.type = "number" -> DigitStr[v.num + 1]
      [] v.type = "null" -> "null"
      [] OTHER -> "undefined"

----------------------------------------------------------------------------
(* DashCheckbox                                                            *)

KEYCODE_SPACE == 32

DashCheckbox_observedAttributes == {"checked", "disabled"}

CbAttrNames ==
    {"checked", "disabled", "tabindex", "role", "aria-checked", "aria-disabled"}

\* HTMLElement.blur(): the element stops being document.activeElement.
DashCheckbox_blur(c) == [c EXCEPT !.focused = FALSE]

RECURSIVE DashCheckbox_setAttribute(_, _, _)
RECURSIVE DashCheckbox_removeAttribute(_, _)
RECURSIVE DashCheckbox_attributeChangedCallback(_, _, _, _)

\* attributeChangedCallback(name, oldValue, newValue); newValue is Absent
\* where the code sees null.
DashCheckbox_attributeChangedCallback(c, name, oldValue, newValue) ==
    CASE name = "checked" ->
           DashCheckbox_setAttribute(c, "aria-checked",
                                     JSToString(JSBool(newValue # Absent)))
      [] name = "disabled" ->
           LET isDisabled == newValue # Absent
               c1 == DashCheckbox_setAttribute(c, "aria-disabled",
                                               JSToString(JSBool(isDisabled)))
           IN  IF isDisabled
               THEN LET c2 == DashCheckbox_removeAttribute(c1, "tabindex")
                    IN  IF c2.focused THEN DashCheckbox_blur(c2) ELSE c2
               ELSE DashCheckbox_setAttribute(c1, "tabindex", "0")
      [] OTHER -> c

\* Element.setAttribute on a dash-checkbox: the attribute is stored, and an
\* upgraded element gets attributeChangedCallback for an observed attribute
\* (also when the value does not change).
DashCheckbox_setAttribute(c, name, value) ==
    LET c1 == [c EXCEPT !.attr[name] = value]
    IN  IF c.upgraded /\ name \in DashCheckbox_observedAttributes
        THEN DashCheckbox_attributeChangedCallback(c1, name, c.attr[name], value)
        ELSE c1

\* Element.removeAttribute: nothing happens, and no callback runs, when the
\* attribute is not there.
DashCheckbox_removeAttribute(c, name) ==
    IF c.attr[name] = Absent THEN c
    ELSE LET c1 == [c EXCEPT !.attr[name] = Absent]
         IN  IF c.upgraded /\ name \in DashCheckbox_observedAttributes
             THEN DashCheckbox_attributeChangedCallback(c1, name, c.attr[name], Absent)
             ELSE c1

\* set checked(value)
DashCheckbox_set_checked(c, value) ==
    LET isChecked == JSToBoolean(value)
    IN  IF isChecked
        THEN DashCheckbox_setAttribute(c, "checked", "")
        ELSE DashCheckbox_removeAttribute(c, "checked")

\* get checked()
DashCheckbox_get_checked(c) == JSBool(c.attr["checked"] # Absent)

\* set disabled(value) that also unchecks the checkbox it disables.
SetDisabled_Unchecks(c, value) ==
    LET isDisabled == JSToBoolean(value)
        c1 == IF isDisabled
              THEN DashCheckbox_setAttribute(c, "disabled", "")
              ELSE DashCheckbox_removeAttribute(c, "disabled")
    IN  IF isDisabled
        THEN LET c2 == DashCheckbox_removeAttribute(c1, "tabindex")
                 c3 == DashCheckbox_removeAttribute(c2, "checked")
             IN  IF c3.focused THEN DashCheckbox_blur(c3) ELSE c3
        ELSE DashCheckbox_setAttribute(c1, "tabindex", "0")

\* set disabled(value)
DashCheckbox_set_disabled(c, value) ==
    LET isDisabled == JSToBoolean(value)
        c1 == IF isDisabled
              THEN DashCheckbox_setAttribute(c, "disabled", "")
              ELSE DashCheckbox_removeAttribute(c, "disabled")
    IN  IF isDisabled
        THEN LET c2 == DashCheckbox_removeAttribute(c1, "tabindex")
             IN  IF c2.focused THEN DashCheckbox_blur(c2) ELSE c2
        ELSE DashCheckbox_setAttribute(c1, "tabindex", "0")

\* get disabled(): the field _disabled, which no code of the class writes.
DashCheckbox_get_disabled(c) == c._disabled

\* Reading element.<prop> (also this.<prop> inside the class): an own
\* property shadows the accessor of the class; without the class there is
\* no accessor.
DashCheckbox_get(c, prop) ==
    IF c.own[prop] # NoOwn THEN c.own[prop]
    ELSE IF ~c.upgraded THEN JSUndefined
    ELSE IF prop = "checked" THEN DashCheckbox_get_checked(c)
    ELSE DashCheckbox_get_disabled(c)

\* Writing element.<prop> = value: an own property takes the write; so does
\* an element without the class, which gets an own property by it.
DashCheckbox_put(c, prop, value) ==
    IF c.own[prop] # NoOwn \/ ~c.upgraded THEN [c EXCEPT !.own[prop] = value]
    ELSE IF prop = "checked" THEN DashCheckbox_set_checked(c, value)
    ELSE DashCheckbox_set_disabled(c, value)

\* connectedCallback()
DashCheckbox_connectedCallback(c) ==
    LET c1 == IF c.attr["role"] = Absent
              THEN DashCheckbox_setAttribute(c, "role", "checkbox")
              ELSE c
        c2 == IF c1.attr["tabindex"] = Absent
              THEN DashCheckbox_setAttribute(c1, "tabindex", JSToString(JSNum(0)))
              ELSE c1
    IN  [c2 EXCEPT !.listening = TRUE]

\* disconnectedCallback()
DashCheckbox_disconnectedCallback(c) == [c EXCEPT !.listening = FALSE]

\* What a handler hands back: the element (or elements) afterwards, the events
\* it dispatched, whether it called preventDefault(), whether it threw, and
\* the value it returned where there is one.
Outcome(el, emitted, prevented, threw) ==
    [el |-> el, emitted |-> emitted, prevented |-> prevented, threw |-> threw,
     result |-> JSUndefined]

\* new CustomEvent('change', {detail: {checked: this.checked}, bubbles: true})
ChangeEvent(c) ==
    [type |-> "change", detail |-> DashCheckbox_get(c, "checked"), bubbles |-> TRUE]

\* _toggleChecked() with the event built before the flip.
ToggleChecked_StalePayload(c) ==
    IF JSToBoolean(DashCheckbox_get(c, "disabled"))
    THEN Outcome(c, <<>>, FALSE, FALSE)
    ELSE LET c1 == DashCheckbox_put(c, "checked",
                       JSBool(~JSToBoolean(DashCheckbox_get(c, "checked"))))
         IN  Outcome(c1, <<ChangeEvent(c)>>, FALSE, FALSE)

\* _toggleChecked()
_toggleChecked(c) ==
    IF JSToBoolean(DashCheckbox_get(c, "disabled"))
    THEN Outcome(c, <<>>, FALSE, FALSE)
    ELSE LET c1 == DashCheckbox_put(c, "checked",
                       JSBool(~JSToBoolean(DashCheckbox_get(c, "checked"))))
         IN  Outcome(c1, <<ChangeEvent(c1)>>, FALSE, FALSE)

\* _onKeyDown(event)
DashCheckbox_onKeyDown(c, keyCode, altKey) ==
    IF altKey THEN Outcome(c, <<>>, FALSE, FALSE)
    ELSE IF keyCode = KEYCODE_SPACE
         THEN [_toggleChecked(c) EXCEPT !.prevented = TRUE]
         ELSE Outcome(c, <<>>, FALSE, FALSE)

\* _onClick(event)
DashCheckbox_onClick(c) == _toggleChecked(c)

\* The upgrade of an element that was created before the class was defined:
\* attributeChangedCallback for each observed attribute it has, then
\* connectedCallback if it is in the document.
DashCheckbox_upgrade(c) ==
    LET c0 == [c EXCEPT !.upgraded = TRUE]
        c1 == IF c0.attr["checked"] # Absent
              THEN DashCheckbox_attributeChangedCallback(c0, "checked", Absent,
                                                         c0.attr["checked"])
              ELSE c0
        c2 == IF c1.attr["disabled"] # Absent
              THEN DashCheckbox_attributeChangedCallback(c1, "disabled", Absent,
                                                         c1.attr["disabled"])
              ELSE c1
    IN  IF c2.connected THEN DashCheckbox_connectedCallback(c2) ELSE c2

----------------------------------------------------------------------------
(* DashOption                                                              *)

\* x == y of JavaScript, for the values above.
StrIsNumeric(s) == s = "" \/ \E d \in 1..Len(DigitStr) : DigitStr[d] = s
StrToNumber(s) ==
    IF s = "" THEN 0 ELSE (CHOOSE d \in 1..Len(DigitStr) : DigitStr[d] = s) - 1
BoolToNumber(b) == IF b THEN 1 ELSE 0
Nullish(v) == v.type \in {"null", "undefined"}
JSLooseEquals(x, y) ==
    LET nx == IF x.type = "boolean" THEN JSNum(BoolToNumber(x.bool)) ELSE x
        ny == IF y.type = "boolean" THEN JSNum(BoolToNumber(y.bool)) ELSE y
    IN  CASE Nullish(nx) \/ Nullish(ny) -> Nullish(nx) /\ Nullish(ny)
          [] nx.type = "number" /\ ny.type = "number" -> nx.num = ny.num
          [] nx.type = "string" /\ ny.type = "string" -> nx.str = ny.str
          [] nx.type = "number" /\ ny.type = "string" ->
                 StrIsNumeric(ny.str) /\ StrToNumber(ny.str) = nx.num
          [] nx.type = "string" /\ ny.type = "number" ->
                 StrIsNumeric(nx.str) /\ StrToNumber(nx.str) = ny.num
          [] OTHER -> FALSE

DashOption_observedAttributes == {"selected"}

OptAttrNames == {"id", "selected", "value", "role", "aria-selected"}

RECURSIVE DashOption_setAttribute(_, _, _)
RECURSIVE DashOption_attributeChangedCallback(_, _, _, _)

\* attributeChangedCallback(name, oldValue, newValue)
DashOption_attributeChangedCallback(o, name, oldValue, newValue) ==
    IF name = "selected"
    THEN DashOption_setAttribute(o, "aria-selected",
                                 JSToString(JSBool(newValue # Absent)))
    ELSE o

\* Element.setAttribute on a dash-option
DashOption_setAttribute(o, name, value) ==
    LET o1 == [o EXCEPT !.attr[name] = value]
    IN  IF o.upgraded /\ name \in DashOption_observedAttributes
        THEN DashOption_attributeChangedCallback(o1, name, o.attr[name], value)
        ELSE o1

\* Element.removeAttribute on a dash-option
DashOption_removeAttribute(o, name) ==
    IF o.attr[name] = Absent THEN o
    ELSE LET o1 == [o EXCEPT !.attr[name] = Absent]
         IN  IF o.upgraded /\ name \in DashOption_observedAttributes
             THEN DashOption_attributeChangedCallback(o1, name, o.attr[name], Absent)
             ELSE o1

\* set selected(value)
DashOption_set_selected(o, value) ==
    LET isSelected == JSToBoolean(value)
    IN  IF isSelected
        THEN DashOption_setAttribute(o, "selected", "")
        ELSE DashOption_removeAttribute(o, "selected")

\* get selected()
DashOption_get_selected(o) == JSBool(o.attr["selected"] # Absent)

\* set value(val)
DashOption_set_value(o, val) == DashOption_setAttribute(o, "value", JSToString(val))

\* get value(): getAttribute('value'), null without the attribute
DashOption_get_value(o) ==
    IF o.attr["value"] = Absent THEN JSNull ELSE JSStr(o.attr["value"])

\* Reading option.<prop> for selected and value (own property first; no
\* accessor without the class).
DashOption_get(o, prop) ==
    IF o.own[prop] # NoOwn THEN o.own[prop]
    ELSE IF ~o.upgraded THEN JSUndefined
    ELSE IF prop = "selected" THEN DashOption_get_selected(o)
    ELSE DashOption_get_value(o)

\* Writing option.<prop> = value
DashOption_put(o, prop, value) ==
    IF o.own[prop] # NoOwn \/ ~o.upgraded THEN [o EXCEPT !.own[prop] = value]
    ELSE IF prop = "selected" THEN DashOption_set_selected(o, value)
    ELSE DashOption_set_value(o, value)

\* element.id, the reflection of the id attribute ('' without it)
ElementId(o) == IF o.attr["id"] = Absent THEN "" ELSE o.attr["id"]

\* upgradeProperty(prop)
DashOption_upgradeProperty(o, prop) ==
    IF o.own[prop] # NoOwn
    THEN LET value == o.own[prop]
             o1 == [o EXCEPT !.own[prop] = NoOwn]
         IN  DashOption_put(o1, prop, value)
    ELSE o

\* `dash-option-generated-${dashOptionCounter}`
GeneratedId(counter) == "dash-option-generated-" \o JSToString(JSNum(counter))

\* connectedCallback() that reads the counter and does not increment it.
ConnectedCallback_NoIncrement(o, counter) ==
    LET o1 == IF o.attr["role"] = Absent
              THEN DashOption_setAttribute(o, "role", "option")
              ELSE o
        o2 == IF ElementId(o1) = ""
              THEN DashOption_setAttribute(o1, "id", GeneratedId(counter))
              ELSE o1
        o3 == DashOption_upgradeProperty(o2, "selected")
        o4 == DashOption_upgradeProperty(o3, "value")
    IN  [el |-> o4, counter |-> counter]

\* connectedCallback(), with the counter it reads and increments: the
\* element and the counter afterwards.
DashOption_connectedCallback(o, counter) ==
    LET o1 == IF o.attr["role"] = Absent
              THEN DashOption_setAttribute(o, "role", "option")
              ELSE o
        o2 == IF ElementId(o1) = ""
              THEN DashOption_setAttribute(o1, "id", GeneratedId(counter))
              ELSE o1
        o3 == DashOption_upgradeProperty(o2, "selected")
        o4 == DashOption_upgradeProperty(o3, "value")
    IN  [el |-> o4,
         counter |-> IF ElementId(o1) = "" THEN counter + 1 ELSE counter]

\* The upgrade of an option created before the class was defined:
\* attributeChangedCallback for the observed attribute it has, then
\* connectedCallback if it is in the document.
DashOption_upgrade(o, counter, connected) ==
    LET o0 == [o EXCEPT !.upgraded = TRUE]
        o1 == IF o0.attr["selected"] # Absent
              THEN DashOption_attributeChangedCallback(o0, "selected", Absent,
                                                       o0.attr["selected"])
              ELSE o0
    IN  IF connected THEN DashOption_connectedCallback(o1, counter)
        ELSE [el |-> o1, counter |-> counter]

----------------------------------------------------------------------------
(* DashListbox.  Its methods work on the listbox element and the options   *)
(* of the page: w.lb is the listbox, w.opts the dash-option elements in    *)
(* document order, each with the listbox it is a child of (parent, 0 for   *)
(* an option outside the document).                                        *)

KEYCODE_UP == 38
KEYCODE_DOWN == 40
KEYCODE_LEFT == 37
KEYCODE_RIGHT == 39
KEYCODE_HOME == 36
KEYCODE_END == 35

\* The listbox whose methods are modelled is listbox 1.
IsChild(o) == o.parent = 1

\* _allOptions(): the positions in w.opts of the listbox's options, in order
_allOptions(w) ==
    LET InListbox(p) == IsChild(w.opts[p])
    IN  SelectSeq([p \in 1..Len(w.opts) |-> p], InListbox)

IsSelected(w, p) == JSToBoolean(DashOption_get(w.opts[p], "selected"))

\* Array.prototype.findIndex(option => option.selected): -1 if there is none
FindIndexSelected(w, options) ==
    IF \E k \in 1..Len(options) : IsSelected(w, options[k])
    THEN (CHOOSE k \in 1..Len(options) :
              /\ IsSelected(w, options[k])
              /\ \A j \in 1..(k - 1) : ~IsSelected(w, options[j])) - 1
    ELSE -1

\* options[index]: the position of the option, 0 for undefined
At(options, index) ==
    IF index >= 0 /\ index < Len(options) THEN options[index + 1] ELSE 0

\* a % b of JavaScript for b > 0: the sign is that of a
JSRemainder(a, b) == IF a >= 0 THEN a % b ELSE -((-a) % b)

\* _selectedOption(): 0 for undefined
_selectedOption(w) ==
    LET options == _allOptions(w)
    IN  At(options, FindIndexSelected(w, options))

\* _prevOption() that stays on the first option instead of wrapping.
PrevOption_Clamped(w) ==
    LET options == _allOptions(w)
        newIdx == FindIndexSelected(w, options) - 1
    IN  IF Len(options) = 0 THEN 0
        ELSE IF newIdx < 0 THEN At(options, 0)
        ELSE At(options, newIdx)

\* _prevOption(); with no options the index is NaN and the result undefined
_prevOption(w) ==
    LET options == _allOptions(w)
        newIdx == FindIndexSelected(w, options) - 1
    IN  IF Len(options) = 0 THEN 0
        ELSE At(options, JSRemainder(newIdx + Len(options), Len(options)))

\* _nextOption() without the remainder.
NextOption_NoWrap(w) ==
    LET options == _allOptions(w)
        newIdx == FindIndexSelected(w, options) + 1
    IN  IF Len(options) = 0 THEN 0
        ELSE At(options, newIdx)

\* _nextOption() that stays on the last option instead of wrapping.
NextOption_Clamped(w) ==
    LET options == _allOptions(w)
        newIdx == FindIndexSelected(w, options) + 1
    IN  IF Len(options) = 0 THEN 0
        ELSE IF newIdx >= Len(options) THEN At(options, Len(options) - 1)
        ELSE At(options, newIdx)

\* _nextOption()
_nextOption(w) ==
    LET options == _allOptions(w)
        newIdx == FindIndexSelected(w, options) + 1
    IN  IF Len(options) = 0 THEN 0
        ELSE At(options, JSRemainder(newIdx, Len(options)))

\* _firstOption()
_firstOption(w) == At(_allOptions(w), 0)

\* _lastOption()
_lastOption(w) ==
    LET options == _allOptions(w)
    IN  At(options, Len(options) - 1)

\* reset()
reset(w) ==
    LET options == _allOptions(w)
    IN  [w EXCEPT !.opts =
            [p \in 1..Len(w.opts) |->
                IF \E k \in 1..Len(options) : options[k] = p
                THEN DashOption_put(w.opts[p], "selected", JSBool(FALSE))
                ELSE w.opts[p]]]

\* Element.setAttribute on the listbox (it observes no attribute)
DashListbox_setAttribute(w, name, value) == [w EXCEPT !.lb.attr[name] = value]

\* _selectOption(newOption) without the reset() it starts with.
SelectOption_NoReset(w, newOption) ==
    IF newOption = 0 THEN Outcome(w, <<>>, FALSE, TRUE)
    ELSE LET w2 == [w EXCEPT !.opts[newOption] =
                       DashOption_put(w.opts[newOption], "selected", JSBool(TRUE))]
         IN  Outcome(DashListbox_setAttribute(w2, "aria-activedescendant",
                                              ElementId(w2.opts[newOption])),
                     <<>>, FALSE, FALSE)

\* _selectOption(newOption) that leaves aria-activedescendant as it is.
SelectOption_KeepsPointer(w, newOption) ==
    LET w1 == reset(w)
    IN  IF newOption = 0 THEN Outcome(w1, <<>>, FALSE, TRUE)
        ELSE Outcome([w1 EXCEPT !.opts[newOption] =
                         DashOption_put(w1.opts[newOption], "selected",
                                        JSBool(TRUE))],
                     <<>>, FALSE, FALSE)

\* _selectOption(newOption): writing newOption.selected throws a TypeError
\* when newOption is undefined, after reset() has run.
_selectOption(w, newOption) ==
    LET w1 == reset(w)
    IN  IF newOption = 0 THEN Outcome(w1, <<>>, FALSE, TRUE)
        ELSE LET w2 == [w1 EXCEPT !.opts[newOption] =
                           DashOption_put(w1.opts[newOption], "selected",
                                          JSBool(TRUE))]
             IN  Outcome(DashListbox_setAttribute(w2, "aria-activedescendant",
                                                  ElementId(w2.opts[newOption])),
                         <<>>, FALSE, FALSE)

\* this._selectOption(this._nextOption()) and
\* this._selectOption(this._prevOption()), on a listbox that has options
SelectNext(w) == _selectOption(w, _nextOption(w)).el
SelectPrev(w) == _selectOption(w, _prevOption(w)).el

\* this._selectOption(this._nextOption()), k times in a row
RECURSIVE SelectNextTimes(_, _)
SelectNextTimes(w, k) ==
    IF k = 0 THEN w ELSE SelectNextTimes(SelectNext(w), k - 1)

\* set value(val) that returns without reset() when no option matches.
SetValue_NoResetOnMiss(w, val) ==
    LET options == _allOptions(w)
        Matches(p) == JSLooseEquals(DashOption_get(w.opts[p], "value"), val)
        found == SelectSeq(options, Matches)
    IN  IF Len(found) = 0 THEN Outcome(w, <<>>, FALSE, FALSE)
        ELSE _selectOption(w, found[1])

\* set value(val)
DashListbox_set_value(w, val) ==
    LET options == _allOptions(w)
        Matches(p) == JSLooseEquals(DashOption_get(w.opts[p], "value"), val)
        found == SelectSeq(options, Matches)
    IN  IF Len(found) = 0 THEN Outcome(reset(w), <<>>, FALSE, FALSE)
        ELSE _selectOption(w, found[1])

\* get value()
DashListbox_get_value(w) ==
    LET option == _selectedOption(w)
    IN  IF option # 0 THEN DashOption_get(w.opts[option], "value") ELSE JSStr("")

\* Reading listbox.value
DashListbox_get(w) ==
    IF w.lb.own # NoOwn THEN w.lb.own
    ELSE IF ~w.lb.upgraded THEN JSUndefined
    ELSE DashListbox_get_value(w)

\* Writing listbox.value = val
DashListbox_put(w, val) ==
    IF w.lb.own # NoOwn \/ ~w.lb.upgraded
    THEN Outcome([w EXCEPT !.lb.own = val], <<>>, FALSE, FALSE)
    ELSE DashListbox_set_value(w, val)

\* upgradeProperty('value')
DashListbox_upgradeProperty(w) ==
    IF w.lb.own # NoOwn
    THEN LET value == w.lb.own
         IN  DashListbox_put([w EXCEPT !.lb.own = NoOwn], value)
    ELSE Outcome(w, <<>>, FALSE, FALSE)

\* _dispatch(event): the event it dispatches
_dispatch(w, event) ==
    [type |-> event, detail |-> DashListbox_get(w), bubbles |-> TRUE]

\* _onFocus(event) that selects the option it makes active.
OnFocus_Selects(w) ==
    LET selectedOption ==
            IF _selectedOption(w) # 0 THEN _selectedOption(w) ELSE _firstOption(w)
        sel == _selectOption(w, selectedOption)
    IN  IF sel.threw THEN sel
        ELSE Outcome(sel.el, <<_dispatch(sel.el, "input")>>, FALSE, FALSE)

\* _onFocus(event): reading selectedOption.id throws a TypeError when there
\* is no option.
DashListbox_onFocus(w) ==
    LET selectedOption ==
            IF _selectedOption(w) # 0 THEN _selectedOption(w) ELSE _firstOption(w)
    IN  IF selectedOption = 0 THEN Outcome(w, <<>>, FALSE, TRUE)
        ELSE LET w1 == DashListbox_setAttribute(w, "aria-activedescendant",
                                                ElementId(w.opts[selectedOption]))
             IN  Outcome(w1, <<_dispatch(w1, "input")>>, FALSE, FALSE)

\* _onKeyDown(event) that dispatches before it selects.
OnKeyDown_DispatchFirst(w, keyCode, altKey) ==
    IF altKey THEN Outcome(w, <<>>, FALSE, FALSE)
    ELSE IF keyCode \notin {KEYCODE_UP, KEYCODE_LEFT, KEYCODE_DOWN, KEYCODE_RIGHT,
                            KEYCODE_HOME, KEYCODE_END}
    THEN Outcome(w, <<>>, FALSE, FALSE)
    ELSE LET newOption ==
                 CASE keyCode \in {KEYCODE_UP, KEYCODE_LEFT} -> _prevOption(w)
                   [] keyCode \in {KEYCODE_DOWN, KEYCODE_RIGHT} -> _nextOption(w)
                   [] keyCode = KEYCODE_HOME -> _firstOption(w)
                   [] OTHER -> _lastOption(w)
             sel == _selectOption(w, newOption)
         IN  IF sel.threw THEN [sel EXCEPT !.prevented = TRUE]
             ELSE Outcome(sel.el, <<_dispatch(w, "input")>>, TRUE, FALSE)

\* _onKeyDown(event)
DashListbox_onKeyDown(w, keyCode, altKey) ==
    IF altKey THEN Outcome(w, <<>>, FALSE, FALSE)
    ELSE IF keyCode \notin {KEYCODE_UP, KEYCODE_LEFT, KEYCODE_DOWN, KEYCODE_RIGHT,
                            KEYCODE_HOME, KEYCODE_END}
    THEN Outcome(w, <<>>, FALSE, FALSE)
    ELSE LET newOption ==
                 CASE keyCode \in {KEYCODE_UP, KEYCODE_LEFT} -> _prevOption(w)
                   [] keyCode \in {KEYCODE_DOWN, KEYCODE_RIGHT} -> _nextOption(w)
                   [] keyCode = KEYCODE_HOME -> _firstOption(w)
                   [] OTHER -> _lastOption(w)
             sel == _selectOption(w, newOption)
         IN  IF sel.threw THEN [sel EXCEPT !.prevented = TRUE]
             ELSE Outcome(sel.el, <<_dispatch(sel.el, "input")>>, TRUE, FALSE)

\* _onClick(event) that does not look at the role of its target.
OnClick_AnyTarget(w, target) ==
    LET sel == _selectOption(w, target)
    IN  IF sel.threw THEN sel
        ELSE Outcome(sel.el, <<_dispatch(sel.el, "input")>>, FALSE, FALSE)

\* _onClick(event): target is the position of the option clicked, 0 for a
\* click on anything else inside the listbox (no role attribute there).
DashListbox_onClick(w, target) ==
    LET role == IF target = 0 THEN Absent ELSE w.opts[target].attr["role"]
    IN  IF role # "option" THEN Outcome(w, <<>>, FALSE, FALSE)
        ELSE LET sel == _selectOption(w, target)
             IN  IF sel.threw THEN sel
                 ELSE Outcome(sel.el, <<_dispatch(sel.el, "input")>>, FALSE, FALSE)

\* connectedCallback()
DashListbox_connectedCallback(w) ==
    LET w1 == IF w.lb.attr["role"] = Absent
              THEN DashListbox_setAttribute(w, "role", "listbox")
              ELSE w
        w2 == IF w1.lb.attr["tabindex"] = Absent
              THEN DashListbox_setAttribute(w1, "tabindex", "0")
              ELSE w1
        up == DashListbox_upgradeProperty(w2)
    IN  IF up.threw THEN up
        ELSE [up EXCEPT !.el.lb.listening = TRUE]

\* disconnectedCallback()
DashListbox_disconnectedCallback(w) == [w EXCEPT !.lb.listening = FALSE]

----------------------------------------------------------------------------
(* What the page and the user do to the checkbox.                          *)

\* Values external code assigns to `checked` and `disabled`.
FlagInputs == {JSBool(TRUE), JSBool(FALSE), JSStr("")}

\* Keys of a keydown event on the checkbox: space and one other key (Enter).
CbKeys == {KEYCODE_SPACE, 13}

\* The inputs of an operation, and the record kept of it in `last`.
NoInput ==
    [element |-> "", prop |-> "", value |-> JSUndefined, keyCode |-> 0,
     altKey |-> FALSE, target |-> 0]
Did(op, in, out) ==
    [op |-> op, element |-> in.element, prop |-> in.prop, value |-> in.value, keyCode |-> in.keyCode,
     altKey |-> in.altKey, target |-> in.target, emitted |-> out.emitted,
     prevented |-> out.prevented, threw |-> out.threw, result |-> out.result]

Quiet(el) == Outcome(el, <<>>, FALSE, FALSE)

\* The inputs of an operation on the checkbox, of one on the listbox.
CbInput == [NoInput EXCEPT !.element = "dash-checkbox"]
LbInput(in) == [in EXCEPT !.element = "dash-listbox"]

NewCheckbox ==
    [upgraded |-> FALSE, connected |-> FALSE, listening |-> FALSE,
     focused |-> FALSE,
     attr |-> [n \in CbAttrNames |-> Absent],
     own |-> [p \in {"checked", "disabled"} |-> NoOwn],
     _disabled |-> JSUndefined]

\* customElements.define('dash-checkbox', DashCheckbox): the element is
\* upgraded if it is in the document.
CbDefine ==
    /\ ~cbDefined
    /\ cbDefined' = TRUE
    /\ cb' = IF cb.connected THEN DashCheckbox_upgrade(cb) ELSE cb
    /\ last' = Did("define", CbInput, Quiet(cb))
    /\ UNCHANGED lbVars

\* customElements.upgrade(element) on an element outside the document (the
\* state of an element made by document.createElement after the definition).
CbUpgrade ==
    /\ cbDefined /\ ~cb.upgraded /\ ~cb.connected
    /\ cb' = DashCheckbox_upgrade(cb)
    /\ last' = Did("upgrade", CbInput, Quiet(cb))
    /\ UNCHANGED <<cbDefined, lbVars>>

\* The element is inserted into the document.
CbConnect ==
    /\ ~cb.connected
    /\ LET c1 == [cb EXCEPT !.connected = TRUE]
       IN  cb' = IF c1.upgraded THEN DashCheckbox_connectedCallback(c1)
                 ELSE IF cbDefined THEN DashCheckbox_upgrade(c1)
                 ELSE c1
    /\ last' = Did("connect", CbInput, Quiet(cb))
    /\ UNCHANGED <<cbDefined, lbVars>>

\* The element is removed from the document (and so loses the focus).
CbDisconnect ==
    /\ cb.connected
    /\ LET c1 == [cb EXCEPT !.connected = FALSE, !.focused = FALSE]
       IN  cb' = IF c1.upgraded THEN DashCheckbox_disconnectedCallback(c1) ELSE c1
    /\ last' = Did("disconnect", CbInput, Quiet(cb))
    /\ UNCHANGED <<cbDefined, lbVars>>

\* element.checked = value, element.disabled = value
CbSetProperty(prop, value) ==
    /\ cb' = DashCheckbox_put(cb, prop, value)
    /\ last' = Did("setProperty", [CbInput EXCEPT !.prop = prop, !.value = value], Quiet(cb))
    /\ UNCHANGED <<cbDefined, lbVars>>

\* element.setAttribute(name, ''), also the attribute in the markup
CbSetAttribute(name) ==
    /\ cb' = DashCheckbox_setAttribute(cb, name, "")
    /\ last' = Did("setAttribute", [CbInput EXCEPT !.prop = name], Quiet(cb))
    /\ UNCHANGED <<cbDefined, lbVars>>

\* element.removeAttribute(name)
CbRemoveAttribute(name) ==
    /\ cb' = DashCheckbox_removeAttribute(cb, name)
    /\ last' = Did("removeAttribute", [CbInput EXCEPT !.prop = name], Quiet(cb))
    /\ UNCHANGED <<cbDefined, lbVars>>

\* The user moves the focus to the element: it must be in the document and
\* have a tabindex.
CbFocus ==
    /\ cb.connected /\ cb.attr["tabindex"] # Absent /\ ~cb.focused
    /\ cb' = [cb EXCEPT !.focused = TRUE]
    /\ last' = Did("focus", CbInput, Quiet(cb))
    /\ UNCHANGED <<cbDefined, lbVars>>

\* The user moves the focus away.
CbBlur ==
    /\ cb.focused
    /\ cb' = DashCheckbox_blur(cb)
    /\ last' = Did("blur", CbInput, Quiet(cb))
    /\ UNCHANGED <<cbDefined, lbVars>>

\* A click event reaches the element; _onClick runs if it is attached.
CbClick ==
    /\ cb.connected
    /\ LET out == IF cb.listening THEN DashCheckbox_onClick(cb) ELSE Quiet(cb)
       IN  /\ cb' = out.el
           /\ last' = Did("click", CbInput, out)
    /\ UNCHANGED <<cbDefined, lbVars>>

\* A keydown event reaches the element; _onKeyDown runs if it is attached.
CbKeyDown(keyCode, altKey) ==
    /\ cb.connected
    /\ LET out == IF cb.listening THEN DashCheckbox_onKeyDown(cb, keyCode, altKey)
                  ELSE Quiet(cb)
       IN  /\ cb' = out.el
           /\ last' = Did("keydown", [CbInput EXCEPT !.keyCode = keyCode, !.altKey = altKey], out)
    /\ UNCHANGED <<cbDefined, lbVars>>

----------------------------------------------------------------------------
(* What the page and the user do to the listbox and its options.           *)

\* The most dash-option elements a page holds.
MaxOpts == 3

\* The listboxes of the page; options are children of either, the methods
\* modelled are those of listbox 1.
NumListboxes == 2

\* The value attribute an option is given in the markup (Absent: none):
\* a small set where the subject is the selection, a wider one where it is
\* the value.
NavValues == {"a", "b"}
OptionValues == {Absent, "a", "1", ""}

\* The id attribute an option is given in the markup (Absent: none).
OptionIds == {Absent, "x", "dash-option-generated-0"}

\* Values external code assigns to listbox.value, likewise.
NavValueInputs == {JSStr("a"), JSStr("")}
ValueInputs == {JSStr("a"), JSStr("b"), JSStr(""), JSNum(1), JSNull}

\* Keys of a keydown event on the listbox: the six handled and one other.
LbKeys ==
    {KEYCODE_UP, KEYCODE_DOWN, KEYCODE_LEFT, KEYCODE_RIGHT, KEYCODE_HOME,
     KEYCODE_END, 13}

NewListbox ==
    [upgraded |-> FALSE, connected |-> FALSE, listening |-> FALSE,
     attr |-> [n \in {"role", "tabindex", "aria-activedescendant"} |-> Absent],
     own |-> NoOwn]

\* idGiven is no field of the element: it records, for the properties, that
\* the markup gave the element its id.
NewOption ==
    [parent |-> 0, upgraded |-> FALSE, idGiven |-> FALSE,
     attr |-> [n \in OptAttrNames |-> Absent],
     own |-> [p \in {"selected", "value"} |-> NoOwn]]

World == [lb |-> lb, opts |-> opts]

\* An option is in the document when its listbox is.
OptConnected(o, l) == o.parent # 0 /\ (o.parent = 1 => l.connected)

\* What insertion into the document does to an option: connectedCallback for
\* an upgraded one, the upgrade for one created before the class was defined.
OptInserted(o, counter, defined) ==
    IF o.upgraded THEN DashOption_connectedCallback(o, counter)
    ELSE IF defined THEN DashOption_upgrade(o, counter, TRUE)
    ELSE [el |-> o, counter |-> counter]

\* The options from position p on, those at the positions `which` treated
\* by OptInserted in document order: the options and the counter afterwards.
RECURSIVE InsertEach(_, _, _, _, _)
InsertEach(os, p, counter, defined, which) ==
    IF p > Len(os) THEN [opts |-> os, counter |-> counter]
    ELSE IF p \in which
         THEN LET done == OptInserted(os[p], counter, defined)
              IN  InsertEach([os EXCEPT ![p] = done.el], p + 1, done.counter,
                             defined, which)
         ELSE InsertEach(os, p + 1, counter, defined, which)

\* A dash-option element with the attributes of its markup is created as a
\* child of listbox `parent`, after the other options.  With the class
\* defined the element is created upgraded, so setting `selected` runs
\* attributeChangedCallback, and connectedCallback runs once it is in the
\* document.
OptAppend(parent, id, value, selected) ==
    /\ Len(opts) < MaxOpts
    /\ LET o0 == [NewOption EXCEPT !.upgraded = lbDefined,
                                   !.idGiven = (id # Absent)]
           o1 == IF id # Absent THEN DashOption_setAttribute(o0, "id", id) ELSE o0
           o2 == IF value # Absent THEN DashOption_setAttribute(o1, "value", value)
                 ELSE o1
           o3 == IF selected THEN DashOption_setAttribute(o2, "selected", "") ELSE o2
           o4 == [o3 EXCEPT !.parent = parent]
           con == IF OptConnected(o4, lb)
                  THEN OptInserted(o4, dashOptionCounter, lbDefined)
                  ELSE [el |-> o4, counter |-> dashOptionCounter]
       IN  /\ opts' = Append(opts, con.el)
           /\ dashOptionCounter' = con.counter
           /\ last' = Did("append", [NoInput EXCEPT !.target = Len(opts) + 1],
                          Quiet(con.el))
    /\ UNCHANGED <<cbVars, lb, lbDefined>>

\* The option at position p is removed from its listbox and kept.
OptDetach(p) ==
    /\ opts[p].parent # 0
    /\ opts' = [opts EXCEPT ![p].parent = 0]
    /\ last' = Did("detach", [NoInput EXCEPT !.target = p], Quiet(opts[p]))
    /\ UNCHANGED <<cbVars, lb, dashOptionCounter, lbDefined>>

\* A detached option is inserted again, as a child of listbox `parent`.
OptReattach(p, parent) ==
    /\ opts[p].parent = 0
    /\ LET o1 == [opts[p] EXCEPT !.parent = parent]
           con == IF OptConnected(o1, lb)
                  THEN OptInserted(o1, dashOptionCounter, lbDefined)
                  ELSE [el |-> o1, counter |-> dashOptionCounter]
       IN  /\ opts' = [opts EXCEPT ![p] = con.el]
           /\ dashOptionCounter' = con.counter
           /\ last' = Did("reattach", [NoInput EXCEPT !.target = p], Quiet(con.el))
    /\ UNCHANGED <<cbVars, lb, lbDefined>>

\* option.selected = value, option.value = value
OptSetProperty(p, prop, value) ==
    /\ opts' = [opts EXCEPT ![p] = DashOption_put(opts[p], prop, value)]
    /\ last' = Did("option.setProperty",
                   [NoInput EXCEPT !.target = p, !.prop = prop, !.value = value],
                   Quiet(opts[p]))
    /\ UNCHANGED <<cbVars, lb, dashOptionCounter, lbDefined>>

\* option.setAttribute('selected', '')
OptSetAttribute(p, name) ==
    /\ opts' = [opts EXCEPT ![p] = DashOption_setAttribute(opts[p], name, "")]
    /\ last' = Did("option.setAttribute",
                   [NoInput EXCEPT !.target = p, !.prop = name], Quiet(opts[p]))
    /\ UNCHANGED <<cbVars, lb, dashOptionCounter, lbDefined>>

\* option.removeAttribute('selected')
OptRemoveAttribute(p, name) ==
    /\ opts' = [opts EXCEPT ![p] = DashOption_removeAttribute(opts[p], name)]
    /\ last' = Did("option.removeAttribute",
                   [NoInput EXCEPT !.target = p, !.prop = name], Quiet(opts[p]))
    /\ UNCHANGED <<cbVars, lb, dashOptionCounter, lbDefined>>

\* The outcome of a listbox operation becomes the state.
LbDid(op, in, out) ==
    /\ lb' = out.el.lb
    /\ opts' = out.el.opts
    /\ last' = Did(op, LbInput(in), out)
    /\ UNCHANGED <<cbVars, dashOptionCounter, lbDefined>>

\* dash-listbox.js runs: customElements.define('dash-listbox', DashListbox)
\* upgrades the listbox if it is in the document, its connectedCallback
\* running while the options are still without their class; then
\* customElements.define('dash-option', DashOption) upgrades the options
\* that are in the document, in document order.
LbDefine ==
    /\ ~lbDefined
    /\ lbDefined' = TRUE
    /\ LET w0 == [World EXCEPT !.lb.upgraded = lb.connected]
           w1 == IF lb.connected THEN DashListbox_connectedCallback(w0)
                 ELSE Quiet(w0)
           inDocument == {p \in 1..Len(opts) : OptConnected(opts[p], lb)}
           done == InsertEach(w1.el.opts, 1, dashOptionCounter, TRUE, inDocument)
       IN  /\ lb' = w1.el.lb
           /\ opts' = done.opts
           /\ dashOptionCounter' = done.counter
           /\ last' = Did("define", LbInput(NoInput), w1)
    /\ UNCHANGED cbVars

\* The listbox is inserted into the document, and its options with it: the
\* listbox is upgraded if need be and gets connectedCallback, then each of
\* its options in document order.
LbConnect ==
    /\ ~lb.connected
    /\ LET w0 == [World EXCEPT !.lb.connected = TRUE,
                               !.lb.upgraded = lb.upgraded \/ lbDefined]
           w1 == IF w0.lb.upgraded THEN DashListbox_connectedCallback(w0)
                 ELSE Quiet(w0)
           children == {p \in 1..Len(opts) : IsChild(opts[p])}
           done == InsertEach(w1.el.opts, 1, dashOptionCounter, lbDefined, children)
       IN  /\ lb' = w1.el.lb
           /\ opts' = done.opts
           /\ dashOptionCounter' = done.counter
           /\ last' = Did("connect", LbInput(NoInput), w1)
    /\ UNCHANGED <<cbVars, lbDefined>>

\* The listbox is removed from the document, and its options with it.
LbDisconnect ==
    /\ lb.connected
    /\ LET w0 == [World EXCEPT !.lb.connected = FALSE]
           w1 == IF lb.upgraded THEN DashListbox_disconnectedCallback(w0) ELSE w0
       IN  /\ lb' = w1.lb
           /\ last' = Did("disconnect", LbInput(NoInput), Quiet(w1))
    /\ UNCHANGED <<cbVars, opts, dashOptionCounter, lbDefined>>

\* listbox.value = val
LbSetValue(val) ==
    LbDid("setValue", [NoInput EXCEPT !.value = val], DashListbox_put(World, val))

\* listbox.value is read
LbGetValue ==
    LbDid("getValue", NoInput,
          [Quiet(World) EXCEPT !.result = DashListbox_get(World)])

\* listbox.reset()
LbReset ==
    /\ lb.upgraded
    /\ LbDid("reset", NoInput, Quiet(reset(World)))

\* A focus event reaches the listbox; _onFocus runs if it is attached.
LbFocus ==
    /\ lb.connected /\ lb.attr["tabindex"] # Absent
    /\ LbDid("focus", NoInput,
             IF lb.listening THEN DashListbox_onFocus(World) ELSE Quiet(World))

\* A click inside the listbox, on the option at position target or (0) on
\* something else; _onClick runs if it is attached.
LbClick(target) ==
    /\ lb.connected
    /\ target # 0 => IsChild(opts[target])
    /\ LbDid("click", [NoInput EXCEPT !.target = target],
             IF lb.listening THEN DashListbox_onClick(World, target)
             ELSE Quiet(World))

\* A keydown event reaches the listbox; _onKeyDown runs if it is attached.
LbKeyDown(keyCode, altKey) ==
    /\ lb.connected
    /\ LbDid("keydown", [NoInput EXCEPT !.keyCode = keyCode, !.altKey = altKey],
             IF lb.listening THEN DashListbox_onKeyDown(World, keyCode, altKey)
             ELSE Quiet(World))

----------------------------------------------------------------------------
(* Specifications                                                          *)

\* The state of the listbox part before anything is done to it: the script
\* has run, the page holds one empty dash-listbox in the document.
ListboxReady ==
    /\ lbDefined = TRUE
    /\ lb = DashListbox_connectedCallback(
                [lb |-> [NewListbox EXCEPT !.upgraded = TRUE, !.connected = TRUE],
                 opts |-> <<>>]).el.lb
    /\ opts = <<>>
    /\ dashOptionCounter = 0

\* The state of the checkbox part before anything is done to it: an element
\* outside the document, the class not yet defined.
CheckboxNew ==
    /\ cb = NewCheckbox
    /\ cbDefined = FALSE

Init ==
    /\ CheckboxNew
    /\ ListboxReady
    /\ last = Did("new", NoInput, Quiet(NewCheckbox))

\* The page before either script has run: a dash-listbox element in the
\* document, no class defined.
InitBeforeScripts ==
    /\ CheckboxNew
    /\ lbDefined = FALSE
    /\ lb = [NewListbox EXCEPT !.connected = TRUE]
    /\ opts = <<>>
    /\ dashOptionCounter = 0
    /\ last = Did("new", NoInput, Quiet(NewCheckbox))

NextCheckbox ==
    \/ CbDefine
    \/ CbUpgrade
    \/ CbConnect
    \/ CbDisconnect
    \/ \E prop \in {"checked", "disabled"}, value \in FlagInputs :
           CbSetProperty(prop, value)
    \/ \E name \in DashCheckbox_observedAttributes : CbSetAttribute(name)
    \/ \E name \in DashCheckbox_observedAttributes : CbRemoveAttribute(name)
    \/ CbFocus
    \/ CbBlur
    \/ CbClick
    \/ \E keyCode \in CbKeys, altKey \in BOOLEAN : CbKeyDown(keyCode, altKey)

\* The checkbox alone.
SpecCheckbox == Init /\ [][NextCheckbox]_vars

\* One listbox whose options are appended one by one, without ids of their
\* own, and everything the page and the user do to it and to its options.
NextListbox ==
    \/ \E value \in NavValues, selected \in BOOLEAN :
           OptAppend(1, Absent, value, selected)
    \/ \E p \in 1..Len(opts), value \in {JSBool(TRUE), JSBool(FALSE)} :
           OptSetProperty(p, "selected", value)
    \/ \E p \in 1..Len(opts) : OptSetAttribute(p, "selected")
    \/ \E p \in 1..Len(opts) : OptRemoveAttribute(p, "selected")
    \/ \E val \in NavValueInputs : LbSetValue(val)
    \/ LbGetValue
    \/ LbReset
    \/ LbFocus
    \/ \E target \in 0..Len(opts) : LbClick(target)
    \/ \E keyCode \in LbKeys, altKey \in BOOLEAN : LbKeyDown(keyCode, altKey)

SpecListbox == Init /\ [][NextListbox]_vars

\* One listbox and the values of its options: options of any value are
\* appended, selected by a click, and listbox.value is written and read.
NextValue ==
    \/ \E value \in OptionValues, selected \in BOOLEAN :
           OptAppend(1, Absent, value, selected)
    \/ \E val \in ValueInputs : LbSetValue(val)
    \/ LbGetValue
    \/ LbReset
    \/ \E target \in 0..Len(opts) : LbClick(target)

SpecValue == Init /\ [][NextValue]_vars

\* The elements of a page whose scripts run late: properties are assigned
\* on the elements before their classes are defined, and after.
NextUpgrade ==
    \/ \E value \in NavValues, selected \in BOOLEAN :
           OptAppend(1, Absent, value, selected)
    \/ \E p \in 1..Len(opts) : OptSetProperty(p, "selected", JSBool(TRUE))
    \/ \E val \in NavValueInputs : LbSetValue(val)
    \/ LbDefine
    \/ LbDisconnect
    \/ LbConnect

SpecUpgrade == InitBeforeScripts /\ [][NextUpgrade]_vars

\* The most options of the listbox where both widgets are at work.
MaxEventOpts == 2

\* The user at work on both widgets: clicks and key presses on a checkbox
\* whose `checked` the page may have written before or after the class was
\* defined, and on a listbox with options.
NextEvents ==
    \/ CbDefine
    \/ CbConnect
    \/ \E value \in {JSBool(TRUE), JSBool(FALSE)} : CbSetProperty("checked", value)
    \/ CbClick
    \/ \E keyCode \in CbKeys \cup {KEYCODE_DOWN}, altKey \in BOOLEAN :
           CbKeyDown(keyCode, altKey)
    \/ \E value \in NavValues, selected \in BOOLEAN :
           Len(opts) < MaxEventOpts /\ OptAppend(1, Absent, value, selected)
    \/ \E target \in 0..Len(opts) : LbClick(target)
    \/ \E keyCode \in LbKeys \cup {KEYCODE_SPACE}, altKey \in BOOLEAN :
           LbKeyDown(keyCode, altKey)

SpecEvents == Init /\ [][NextEvents]_vars

\* A listbox whose options are all there, at most one of them selected,
\* before anything is done to it, and the operations of the listbox from
\* then on: the options change no more except by what the listbox does.
NextFixed ==
    \/ \E value \in NavValues, selected \in BOOLEAN :
           /\ last.op \in {"new", "append"}
           /\ selected => \A p \in 1..Len(opts) : opts[p].attr["selected"] = Absent
           /\ OptAppend(1, Absent, value, selected)
    \/ \E val \in NavValueInputs : LbSetValue(val)
    \/ LbReset
    \/ LbFocus
    \/ \E target \in 0..Len(opts) : LbClick(target)
    \/ \E keyCode \in LbKeys, altKey \in BOOLEAN : LbKeyDown(keyCode, altKey)

SpecFixed == Init /\ [][NextFixed]_vars

\* Options with and without ids of their own, mounted in two listboxes,
\* detached and inserted again.
NextIds ==
    \/ \E parent \in 1..NumListboxes, id \in OptionIds :
           OptAppend(parent, id, Absent, FALSE)
    \/ \E p \in 1..Len(opts) : OptDetach(p)
    \/ \E p \in 1..Len(opts), parent \in 1..NumListboxes : OptReattach(p, parent)

SpecIds == Init /\ [][NextIds]_vars

----------------------------------------------------------------------------
(* Properties of the checkbox                                              *)

\* The flags as the page reads them, and the state both surfaces write.
CbChecked(c) == JSToBoolean(DashCheckbox_get(c, "checked"))
CbDisabledAttr(c) == c.attr["disabled"] # Absent
CbNoOwn(c) == c.own["checked"] = NoOwn /\ c.own["disabled"] = NoOwn

\* A click or an unmodified press of the space key was the last operation.
CbActivated(l) ==
    \/ l.op = "click"
    \/ l.op = "keydown" /\ l.keyCode = KEYCODE_SPACE /\ ~l.altKey

\* The last operation wrote a flag by its property or its attribute.
CbProgrammatic(l) == l.op \in {"setProperty", "setAttribute", "removeAttribute"}

\* C1: while the checkbox is disabled (by the property or by the attribute,
\* both of which write the disabled attribute), a click or an unmodified
\* space press leaves `checked` as it was and dispatches no change event.
C1_DisabledActivationIsNoop ==
    [][(/\ cb.listening /\ CbNoOwn(cb) /\ CbDisabledAttr(cb)
        /\ CbActivated(last'))
       => /\ CbChecked(cb') = CbChecked(cb)
          /\ last'.emitted = <<>>]_vars

\* C5: on an installed element, each flag's property reads true exactly when
\* its attribute is present (checked, disabled of the checkbox; selected of
\* every option).
C5_PropertyReflectsAttribute ==
    /\ (cb.upgraded /\ CbNoOwn(cb)) =>
          /\ (DashCheckbox_get(cb, "checked") = JSBool(TRUE))
                 = (cb.attr["checked"] # Absent)
          /\ (DashCheckbox_get(cb, "disabled") = JSBool(TRUE))
                 = (cb.attr["disabled"] # Absent)
    /\ \A p \in 1..Len(opts) :
          (opts[p].upgraded /\ opts[p].own["selected"] = NoOwn) =>
              (DashOption_get(opts[p], "selected") = JSBool(TRUE))
                  = (opts[p].attr["selected"] # Absent)

\* C6: when an element becomes installed and attached, every property that
\* was assigned on it before has been passed to the setter of the class (the
\* attribute shows the value) and no longer shadows that setter.
C6_PreUpgradePropertiesReplayed ==
    [][(~(cb.upgraded /\ cb.connected) /\ cb'.upgraded /\ cb'.connected)
       => \A prop \in {"checked", "disabled"} :
              cb.own[prop] # NoOwn =>
                  /\ cb'.own[prop] = NoOwn
                  /\ (cb'.attr[prop] # Absent) = JSToBoolean(cb.own[prop])]_vars

\* C7: on an installed, attached checkbox that is not disabled, a click or an
\* unmodified space press flips `checked` and dispatches exactly one bubbling
\* change event whose detail is the new state; writing a flag by property or
\* attribute dispatches nothing.
C7_ToggleNotifiesOnce ==
    [][/\ (/\ cb.listening /\ CbActivated(last')
           /\ ~CbDisabledAttr(cb) /\ ~JSToBoolean(DashCheckbox_get(cb, "disabled")))
          => /\ CbChecked(cb') = ~CbChecked(cb)
             /\ last'.emitted = <<[type |-> "change",
                                   detail |-> JSBool(CbChecked(cb')),
                                   bubbles |-> TRUE]>>
       /\ CbProgrammatic(last') => last'.emitted = <<>>]_vars

\* C7 happens: a space press on an enabled, unchecked checkbox has checked it
\* and dispatched change with detail true.
C7_Witness ==
    /\ last.op = "keydown" /\ last.keyCode = KEYCODE_SPACE /\ ~last.altKey
    /\ cb.listening /\ ~CbDisabledAttr(cb) /\ CbNoOwn(cb)
    /\ cb.attr["checked"] # Absent
    /\ Len(last.emitted) = 1 /\ last.emitted[1].detail = JSBool(TRUE)

\* C8: an attached checkbox that is disabled has no tabindex and does not
\* hold the focus.
C8_DisabledIsUnfocusable ==
    (cb.upgraded /\ cb.connected /\ CbDisabledAttr(cb))
        => (cb.attr["tabindex"] = Absent /\ ~cb.focused)

----------------------------------------------------------------------------
(* Properties of the listbox and its options                               *)

\* The positions of the listbox's options whose `selected` reads true.
SelectedSet(os) ==
    {p \in 1..Len(os) :
        IsChild(os[p]) /\ JSToBoolean(DashOption_get(os[p], "selected"))}

ChildSet(os) == {p \in 1..Len(os) : IsChild(os[p])}

AtMostOneSelected(os) == Cardinality(SelectedSet(os)) <= 1

HandledKeys ==
    {KEYCODE_UP, KEYCODE_LEFT, KEYCODE_DOWN, KEYCODE_RIGHT, KEYCODE_HOME,
     KEYCODE_END}

\* The last operation was a handled, unmodified key press.
LbNavigated(l) == l.op = "keydown" /\ l.keyCode \in HandledKeys /\ ~l.altKey

\* The last operation was one of the listbox's own selection operations.
LbSelectionOp(l) ==
    \/ LbNavigated(l)
    \/ l.op = "click"
    \/ l.op = "setValue"
    \/ l.op = "reset"

\* C2: a selection operation of a listbox with at least one option, of which
\* at most one is selected, leaves at most one option selected; after a key
\* press or a click on an option exactly one option is selected, the one
\* aria-activedescendant names, and after a click it is the option clicked.
C2_SelectionOpsKeepAtMostOne ==
    [][(/\ LbSelectionOp(last') /\ ChildSet(opts) # {}
        /\ AtMostOneSelected(opts))
       => /\ AtMostOneSelected(opts')
          /\ (LbNavigated(last') \/ (last'.op = "click" /\ last'.target # 0))
                => \E p \in ChildSet(opts') :
                      /\ SelectedSet(opts') = {p}
                      /\ lb'.attr["aria-activedescendant"] = ElementId(opts'[p])
                      /\ last'.op = "click" => p = last'.target]_vars

\* C2 happens: with the first option selected, a click on the second of three
\* options has left exactly the second selected.
C2_Witness ==
    /\ last.op = "click" /\ last.target = 2 /\ Len(opts) = 3
    /\ SelectedSet(opts) = {2}
    /\ opts[1].attr["aria-selected"] = "false"

\* C3: at most one option of the listbox is selected, in every state.
C3_AtMostOneSelectedAlways == AtMostOneSelected(opts)

\* The options whose value is == val, in order.
Matching(os, val) ==
    LET Hit(p) == IsChild(os[p])
                    /\ JSLooseEquals(DashOption_get(os[p], "value"), val)
    IN  SelectSeq([p \in 1..Len(os) |-> p], Hit)

\* C4 as claimed: after listbox.value = v, listbox.value reads v if and only
\* if some option has the value v, and then the first such option is the one
\* selected; otherwise it reads '' and no option is selected.
C4_SetValueRoundTrip ==
    last.op = "setValue" =>
        LET found == Matching(opts, last.value)
        IN  /\ (DashListbox_get(World) = last.value) = (Len(found) > 0)
            /\ Len(found) > 0 => SelectedSet(opts) = {found[1]}
            /\ Len(found) = 0 =>
                  (DashListbox_get(World) = JSStr("") /\ SelectedSet(opts) = {})

\* C4 as amended: after listbox.value = v, if some option's value is == v the
\* first such option is the only one selected and listbox.value reads that
\* option's value, which is v itself when v is a string; otherwise no option
\* is selected and listbox.value reads ''.
C4_SetValueSelectsFirstMatch ==
    last.op = "setValue" =>
        LET found == Matching(opts, last.value)
        IN  /\ Len(found) > 0 =>
                  /\ SelectedSet(opts) = {found[1]}
                  /\ DashListbox_get(World)
                         = DashOption_get(opts[found[1]], "value")
                  /\ last.value.type = "string"
                         => DashListbox_get(World) = last.value
            /\ Len(found) = 0 =>
                  (DashListbox_get(World) = JSStr("") /\ SelectedSet(opts) = {})

\* C4 happens: listbox.value = 'a' with two options of value 'a', the second
\* selected before or not, has selected the first.
C4_Witness ==
    /\ last.op = "setValue" /\ last.value = JSStr("a")
    /\ Len(opts) = 3
    /\ opts[2].attr["value"] = "a" /\ opts[3].attr["value"] = "a"
    /\ opts[1].attr["value"] # "a"
    /\ opts[3].attr["aria-selected"] = "false"
    /\ SelectedSet(opts) = {2}

\* C9: no operation of the listbox ends in an uncaught exception.
C9_NoOperationThrows == ~last.threw

\* The options that are children of a listbox.
Mounted(os) == {p \in 1..Len(os) : os[p].parent # 0}

\* C10 as claimed: no two mounted options have the same id.
C10_MountedIdsDistinct ==
    \A p, q \in Mounted(opts) :
        p # q => ElementId(opts[p]) # ElementId(opts[q])

\* C10 as amended: an option that has an id keeps it; an option mounted
\* without one gets the id of the counter's value, and the counter goes up
\* by one (it never goes down); so the ids the class generated are those of
\* the values below the counter and no two of them are the same.  (Two
\* mounted options have the same id only if the markup gave one of them its
\* id.)
C10_GeneratedIdsDistinct ==
    /\ [](\A p \in 1..Len(opts) :
            (~opts[p].idGiven /\ ElementId(opts[p]) # "") =>
                /\ \E k \in 0..(dashOptionCounter - 1) :
                      ElementId(opts[p]) = GeneratedId(k)
                /\ \A q \in 1..Len(opts) :
                      (q # p /\ ~opts[q].idGiven)
                          => ElementId(opts[q]) # ElementId(opts[p]))
    /\ [][/\ dashOptionCounter' >= dashOptionCounter
          /\ \A p \in 1..Len(opts) :
                ElementId(opts[p]) # "" => ElementId(opts'[p]) = ElementId(opts[p])
          /\ \A p \in 1..Len(opts') :
                (/\ opts'[p].parent # 0 /\ ~opts'[p].idGiven
                 /\ (p > Len(opts) \/ ElementId(opts[p]) = ""))
                => /\ ElementId(opts'[p]) = GeneratedId(dashOptionCounter)
                   /\ dashOptionCounter' = dashOptionCounter + 1
          /\ \A p \in 1..Len(opts') :
                opts'[p].idGiven => ElementId(opts'[p]) \in OptionIds]_vars

\* C10 happens: options of both listboxes have generated ids, one option
\* with an id of its own is mounted, and an option has just been inserted
\* again with the id it had.
C10_Witness ==
    /\ last.op = "reattach"
    /\ \E p, q, r \in Mounted(opts) :
          /\ opts[p].parent = 1 /\ opts[q].parent = 2
          /\ ~opts[p].idGiven /\ ~opts[q].idGiven /\ opts[r].idGiven
          /\ ElementId(opts[p]) # ElementId(opts[q])
          /\ ~opts[last.target].idGiven
    /\ dashOptionCounter = 2

\* The last operation was a click or a key press that dispatched events.
Notified(l) == l.op \in {"click", "keydown"} /\ l.emitted # <<>>

\* C11: when a click or a key press has dispatched its event, the event is
\* the only one, and its detail is what the widget's property reads in the
\* state the handler leaves, every derived attribute being in that state
\* already: for the checkbox aria-checked says whether the checked attribute
\* is present; for the listbox exactly one option is selected, it alone has
\* aria-selected "true", aria-activedescendant is its id and the detail is
\* its value.
C11_PayloadIsStateAtDelivery ==
    Notified(last) =>
        /\ Len(last.emitted) = 1
        /\ last.emitted[1].type = "change" =>
              /\ last.emitted[1].detail = DashCheckbox_get(cb, "checked")
              /\ (cb.attr["aria-checked"] = "true") = (cb.attr["checked"] # Absent)
              /\ CbNoOwn(cb) =>
                    last.emitted[1].detail = JSBool(cb.attr["checked"] # Absent)
        /\ last.emitted[1].type = "input" =>
              /\ last.emitted[1].detail = DashListbox_get(World)
              /\ \E p \in ChildSet(opts) :
                    /\ SelectedSet(opts) = {p}
                    /\ \A q \in ChildSet(opts) :
                          (opts[q].attr["aria-selected"] = "true") = (q = p)
                    /\ lb.attr["aria-activedescendant"] = ElementId(opts[p])
                    /\ last.emitted[1].detail = DashOption_get(opts[p], "value")

\* C11 happens: a key press has moved the selection from the first option
\* to the second, whose value differs, and the event carries the second's.
C11_Witness ==
    /\ LbNavigated(last) /\ Notified(last)
    /\ Len(opts) >= 2 /\ SelectedSet(opts) = {2}
    /\ opts[1].attr["aria-selected"] = "false"
    /\ opts[1].attr["value"] = "a" /\ opts[2].attr["value"] = "b"
    /\ last.emitted[1].detail = JSStr("b")

\* 'true' or 'false', as a flag that reads `flag` is shown by its indicator.
Indicator(flag) == JSToString(JSBool(JSToBoolean(flag)))

\* C12: on an installed element, once a flag has changed (its indicator has
\* been written), the indicator is the string of what the flag reads:
\* aria-checked of `checked`, aria-disabled of `disabled`, and aria-selected
\* of every option's `selected`.
C12_IndicatorsMirrorFlags ==
    /\ cb.upgraded =>
          /\ cb.attr["aria-checked"] # Absent =>
                cb.attr["aria-checked"] = Indicator(DashCheckbox_get(cb, "checked"))
          /\ cb.attr["aria-disabled"] # Absent =>
                cb.attr["aria-disabled"] = Indicator(DashCheckbox_get(cb, "disabled"))
    /\ \A p \in 1..Len(opts) :
          (opts[p].upgraded /\ opts[p].attr["aria-selected"] # Absent) =>
              opts[p].attr["aria-selected"]
                  = Indicator(DashOption_get(opts[p], "selected"))

\* The last operation was input the listbox ignores: a key press with alt
\* held or of a key that is none of the six, a click on something that is
\* not an option.
LbIgnored(l) ==
    /\ l.element = "dash-listbox"
    /\ \/ l.op = "keydown" /\ (l.altKey \/ l.keyCode \notin HandledKeys)
       \/ l.op = "click" /\ l.target = 0

\* The last operation was a key press the checkbox ignores.
CbIgnored(l) ==
    /\ l.element = "dash-checkbox"
    /\ l.op = "keydown" /\ (l.altKey \/ l.keyCode # KEYCODE_SPACE)

\* C13: input the listbox ignores leaves every option and the listbox (so
\* every `selected` and aria-activedescendant) as they were, dispatches
\* nothing, does not call preventDefault and throws nothing; a key press the
\* checkbox ignores leaves the checkbox as it was and dispatches nothing.
C13_IgnoredInputIsNoop ==
    [][/\ LbIgnored(last') =>
             /\ opts' = opts /\ lb' = lb
             /\ last'.emitted = <<>> /\ ~last'.prevented /\ ~last'.threw
       /\ CbIgnored(last') =>
             /\ cb' = cb
             /\ last'.emitted = <<>> /\ ~last'.prevented /\ ~last'.threw]_vars

\* C13 happens: Down with alt held has been pressed on a listbox whose
\* first option of two is selected and active, on a page whose checkbox is
\* attached and checked.
C13_Witness ==
    /\ LbIgnored(last) /\ last.altKey /\ last.keyCode = KEYCODE_DOWN
    /\ lb.listening /\ Len(opts) >= 2 /\ SelectedSet(opts) = {1}
    /\ lb.attr["aria-activedescendant"] = ElementId(opts[1])
    /\ cb.listening /\ cb.attr["checked"] # Absent

\* C14: on an attached listbox with at least one option and none selected,
\* Up or Left selects the last option and Down or Right the first.
C14_NavigationFromNoSelection ==
    [][(/\ LbNavigated(last') /\ lb.listening
        /\ ChildSet(opts) # {} /\ SelectedSet(opts) = {})
       => LET options == _allOptions(World)
          IN  /\ last'.keyCode \in {KEYCODE_UP, KEYCODE_LEFT} =>
                    SelectedSet(opts') = {options[Len(options)]}
              /\ last'.keyCode \in {KEYCODE_DOWN, KEYCODE_RIGHT} =>
                    SelectedSet(opts') = {options[1]}]_vars

\* The first of the selected options, and the index (from 0) of an option
\* among the options of the listbox.
FirstSelected(os) ==
    CHOOSE p \in SelectedSet(os) : \A q \in SelectedSet(os) : p <= q
IndexIn(options, p) == (CHOOSE k \in 1..Len(options) : options[k] = p) - 1

\* The index a key moves the selection to, from index i of n options.
KeyTarget(keyCode, i, n) ==
    CASE keyCode \in {KEYCODE_DOWN, KEYCODE_RIGHT} -> (i + 1) % n
      [] keyCode \in {KEYCODE_UP, KEYCODE_LEFT} -> (i - 1) % n
      [] keyCode = KEYCODE_HOME -> 0
      [] OTHER -> n - 1

\* C15: on an attached listbox whose (first) selected option is at index i
\* of n, Down/Right select index (i + 1) mod n, Up/Left index (i - 1) mod n,
\* Home index 0 and End index n - 1; the option is then the only one
\* selected, preventDefault has been called, and exactly one bubbling input
\* event is dispatched, with the value of the option now selected, whether
\* or not the selection moved.
C15_KeysMoveSelectionWithWraparound ==
    [][(LbNavigated(last') /\ lb.listening /\ SelectedSet(opts) # {})
       => LET options == _allOptions(World)
              n == Len(options)
              i == IndexIn(options, FirstSelected(opts))
              new == options[KeyTarget(last'.keyCode, i, n) + 1]
          IN  /\ SelectedSet(opts') = {new}
              /\ last'.prevented /\ ~last'.threw
              /\ last'.emitted =
                     <<[type |-> "input",
                        detail |-> DashOption_get(opts'[new], "value"),
                        bubbles |-> TRUE]>>]_vars

\* C15 happens: Down on the last of three options has wrapped to the first,
\* whose value the event carries.
C15_Witness ==
    /\ LbNavigated(last) /\ last.keyCode = KEYCODE_DOWN
    /\ Len(opts) = 3 /\ SelectedSet(opts) = {1}
    /\ opts[3].attr["aria-selected"] = "false"
    /\ opts[2].attr["aria-selected"] = Absent
    /\ opts[1].attr["value"] = "b" /\ opts[3].attr["value"] = "a"
    /\ Len(last.emitted) = 1 /\ last.emitted[1].detail = JSStr("b")

\* The last of the listbox's options.
LastChild(os) == CHOOSE p \in ChildSet(os) : \A q \in ChildSet(os) : q <= p

\* Where navigation that comes back to its start ends: on the first of the
\* selected options, on the last option if none was selected.
ReturnPoint(os) == IF SelectedSet(os) = {} THEN {LastChild(os)} ELSE {FirstSelected(os)}

\* C16 as claimed: on a listbox with n >= 1 options, selecting nextOption()
\* n times in a row leaves the selection it started from, whichever option
\* was selected or none.
C16_NextIsCyclic ==
    ChildSet(opts) # {} =>
        SelectedSet(SelectNextTimes(World, Cardinality(ChildSet(opts))).opts)
            = SelectedSet(opts)

\* C16 as amended: on a listbox with n >= 1 options, selecting nextOption()
\* n times in a row ends with exactly the option selected that was selected
\* at the start (the first of them, had several been selected); started
\* with no option selected it ends with the last option selected.
C16_NextReturnsToSelectedOption ==
    ChildSet(opts) # {} =>
        SelectedSet(SelectNextTimes(World, Cardinality(ChildSet(opts))).opts)
            = ReturnPoint(opts)

\* C16 happens: Down has selected the second of three options, and three
\* more nextOption() pass the third and the first and select it again.
C16_Witness ==
    /\ LbNavigated(last) /\ last.keyCode = KEYCODE_DOWN
    /\ Len(opts) = 3 /\ ChildSet(opts) = {1, 2, 3} /\ SelectedSet(opts) = {2}
    /\ SelectedSet(SelectNextTimes(World, 1).opts) = {3}
    /\ SelectedSet(SelectNextTimes(World, 2).opts) = {1}
    /\ SelectedSet(SelectNextTimes(World, 3).opts) = {2}

\* C17 as claimed: on a listbox with n >= 1 options, selecting nextOption()
\* and then prevOption(), and selecting prevOption() and then nextOption(),
\* each leave the selection they started from, whichever option was
\* selected or none.
C17_PrevInvertsNext ==
    ChildSet(opts) # {} =>
        /\ SelectedSet(SelectPrev(SelectNext(World)).opts) = SelectedSet(opts)
        /\ SelectedSet(SelectNext(SelectPrev(World)).opts) = SelectedSet(opts)

\* C17 as amended: on a listbox with n >= 1 options of which one is
\* selected, next then prev, and prev then next, each end with exactly that
\* option selected (the first of them, had several been selected); started
\* with no option selected, each ends with exactly one option selected, so
\* not where it started.
C17_PrevInvertsNextOnSelectedOption ==
    ChildSet(opts) # {} =>
        LET nextPrev == SelectedSet(SelectPrev(SelectNext(World)).opts)
            prevNext == SelectedSet(SelectNext(SelectPrev(World)).opts)
        IN  IF SelectedSet(opts) # {}
            THEN nextPrev = {FirstSelected(opts)} /\ prevNext = {FirstSelected(opts)}
            ELSE Cardinality(nextPrev) = 1 /\ Cardinality(prevNext) = 1

\* C17 happens: Up has selected the last of three options; nextOption()
\* wraps to the first and prevOption() comes back, prevOption() goes to the
\* second and nextOption() comes back.
C17_Witness ==
    /\ LbNavigated(last) /\ last.keyCode = KEYCODE_UP
    /\ Len(opts) = 3 /\ ChildSet(opts) = {1, 2, 3} /\ SelectedSet(opts) = {3}
    /\ SelectedSet(SelectNext(World).opts) = {1}
    /\ SelectedSet(SelectPrev(SelectNext(World)).opts) = {3}
    /\ SelectedSet(SelectPrev(World).opts) = {2}
    /\ SelectedSet(SelectNext(SelectPrev(World)).opts) = {3}

\* The first of the listbox's options.
FirstChild(os) == CHOOSE p \in ChildSet(os) : \A q \in ChildSet(os) : p <= q

\* C18: when an attached listbox with at least one option gets the focus,
\* aria-activedescendant becomes the id of the (first) selected option, or
\* of the first option if none is selected; exactly one bubbling input
\* event is dispatched, with the value of the selected option, '' if none
\* is selected; no option changes, nor anything else of the listbox.
C18_FocusActivatesWithoutSelecting ==
    [][(last'.op = "focus" /\ lb.listening /\ ChildSet(opts) # {})
       => LET active == IF SelectedSet(opts) # {} THEN FirstSelected(opts)
                        ELSE FirstChild(opts)
              value == IF SelectedSet(opts) # {}
                       THEN DashOption_get(opts[active], "value")
                       ELSE JSStr("")
          IN  /\ opts' = opts
              /\ lb' = [lb EXCEPT !.attr["aria-activedescendant"] =
                                      ElementId(opts[active])]
              /\ ElementId(opts[active]) # ""
              /\ last'.emitted =
                     <<[type |-> "input", detail |-> value, bubbles |-> TRUE]>>
              /\ ~last'.prevented /\ ~last'.threw]_vars

\* C18 happens: a listbox of two options, none selected and none active
\* before, has got the focus: the first option is active, none is selected
\* and the event carries ''.
C18_Witness ==
    /\ last.op = "focus" /\ lb.listening
    /\ Len(opts) = 2 /\ SelectedSet(opts) = {}
    /\ \A p \in 1..Len(opts) : opts[p].attr["aria-selected"] = Absent
    /\ lb.attr["aria-activedescendant"] = ElementId(opts[1])
    /\ Len(last.emitted) = 1 /\ last.emitted[1].detail = JSStr("")

\* The last operation wrote the flag `prop` of the checkbox, by its property
\* or by its attribute.
CbWrote(l, prop) ==
    /\ l.element = "dash-checkbox"
    /\ l.op \in {"setProperty", "setAttribute", "removeAttribute"}
    /\ l.prop = prop

\* C19: writing `disabled`, by property or attribute, leaves what `checked`
\* reads, the checked attribute and aria-checked as they were.  Writing
\* `checked` makes `checked` read the value written (as a boolean: the
\* class's setter keeps Boolean(value)), disabled or not, and leaves what
\* `disabled` reads, the disabled attribute, aria-disabled, tabindex and the
\* focus as they were.
C19_FlagsAreIndependent ==
    [][/\ CbWrote(last', "disabled") =>
             /\ DashCheckbox_get(cb', "checked") = DashCheckbox_get(cb, "checked")
             /\ cb'.attr["checked"] = cb.attr["checked"]
             /\ cb'.attr["aria-checked"] = cb.attr["aria-checked"]
       /\ CbWrote(last', "checked") =>
             /\ last'.op = "setProperty" =>
                   JSToBoolean(DashCheckbox_get(cb', "checked"))
                       = JSToBoolean(last'.value)
             /\ (last'.op = "setProperty" /\ cb.upgraded
                    /\ cb.own["checked"] = NoOwn) =>
                   /\ DashCheckbox_get(cb', "checked")
                          = JSBool(JSToBoolean(last'.value))
                   /\ (cb'.attr["checked"] # Absent) = JSToBoolean(last'.value)
             /\ last'.op = "setAttribute" => cb'.attr["checked"] # Absent
             /\ last'.op = "removeAttribute" => cb'.attr["checked"] = Absent
             /\ DashCheckbox_get(cb', "disabled") = DashCheckbox_get(cb, "disabled")
             /\ cb'.attr["disabled"] = cb.attr["disabled"]
             /\ cb'.attr["aria-disabled"] = cb.attr["aria-disabled"]
             /\ cb'.attr["tabindex"] = cb.attr["tabindex"]
             /\ cb'.focused = cb.focused]_vars

\* C19 happens: `checked` has been set to true on an installed, attached
\* checkbox that is disabled and stays so.
C19_Witness ==
    /\ CbWrote(last, "checked") /\ last.op = "setProperty"
    /\ last.value = JSBool(TRUE)
    /\ cb.listening /\ CbNoOwn(cb) /\ CbDisabledAttr(cb)
    /\ cb.attr["aria-disabled"] = "true" /\ cb.attr["tabindex"] = Absent
    /\ cb.attr["checked"] # Absent /\ cb.attr["aria-checked"] = "true"

\* The last operation deselected and selected nothing else: reset(), or
\* listbox.value = v with no option of value v.
LbCleared(l, os) ==
    \/ l.op = "reset"
    \/ l.op = "setValue" /\ Len(Matching(os, l.value)) = 0

\* C20: on a listbox whose options, with ids of their own each, were all
\* there with at most one selected and no aria-activedescendant before the
\* first operation, after any keys, clicks, focus, listbox.value = v and
\* reset(): at most one option is selected, and if one is and
\* aria-activedescendant is set, aria-activedescendant is its id.  reset()
\* and listbox.value = v without a match leave no option selected and
\* aria-activedescendant as it was.
C20_ActiveDescendantIsSelected ==
    /\ [](/\ AtMostOneSelected(opts)
          /\ \A p, q \in ChildSet(opts) :
                p # q => ElementId(opts[p]) # ElementId(opts[q])
          /\ \A p \in SelectedSet(opts) :
                lb.attr["aria-activedescendant"] # Absent =>
                    lb.attr["aria-activedescendant"] = ElementId(opts[p]))
    /\ [][LbCleared(last', opts) =>
             /\ SelectedSet(opts') = {}
             /\ lb'.attr["aria-activedescendant"]
                    = lb.attr["aria-activedescendant"]]_vars

\* C20 happens: reset() has deselected the second of three options, which
\* aria-activedescendant still names.
C20_Witness ==
    /\ last.op = "reset" /\ Len(opts) = 3
    /\ SelectedSet(opts) = {}
    /\ opts[2].attr["aria-selected"] = "false"
    /\ lb.attr["aria-activedescendant"] = ElementId(opts[2])

====
